---- MODULE Spec2Model ----
(***************************************************************************)
(* Model of src/analista.py: the company-list loader                       *)
(* (ler_lista_empresas_csv), the document-fact stub (consult_document_rag) *)
(* and the driver loop that researches, compiles and writes one report per *)
(* company.                                                                *)
(*                                                                         *)
(* Strings are sequences of one-character strings, so that substring       *)
(* tests, replacements and CSV quoting are computed character by           *)
(* character as Python does.  A text file is the sequence of its lines.    *)
(***************************************************************************)
EXTENDS Integers, Sequences, FiniteSets, TLC

VARIABLES
    csvFile,                 \* dados_empresas.csv on disk: NoFile or its lines
    loadRets,                \* values returned by ler_lista_empresas_csv, in call order
    loadFiles,               \* csvFile as it was right before each loader call
    empresas_para_analisar,  \* line 160
    pc,                      \* position of the script
    idx,                     \* position of dados_empresa in the list (0 before the loop)
    empresa_nome_completo,   \* line 163
    fatos_consolidados,      \* lines 181 / 183
    relatorio_objeto,        \* line 189
    report_file,             \* line 228: the name built from file_name_clean (line 195)
    outFiles,                \* output directory: file name -> content
    status,                  \* per company: the state of the spec's section 4.6
    outAtStart,              \* outFiles as it was when the current iteration began
    iterated,                \* the dados_empresa of each iteration begun, in order
    calls,                   \* log of the calls made: <<kind, company position, outcome>>
    compileArgs,             \* the fatos_consolidados each compile call was given
    delays,                  \* number of time.sleep calls completed
    elapsed,                 \* seconds slept so far
    ragUrl,                  \* last argument of consult_document_rag
    ragOut,                  \* its result
    ragPrev                  \* the results of the calls before, in call order

vars == <<csvFile, loadRets, loadFiles, empresas_para_analisar, pc, idx,
          empresa_nome_completo, fatos_consolidados, relatorio_objeto, report_file,
          outFiles, outAtStart, iterated, status, calls, compileArgs, delays, elapsed, ragUrl, ragOut, ragPrev>>

loaderVars == <<csvFile, loadRets, loadFiles>>
ragVars    == <<ragUrl, ragOut, ragPrev>>
loopVars   == <<empresas_para_analisar, pc, idx, empresa_nome_completo,
                fatos_consolidados, relatorio_objeto, report_file, outFiles,
                outAtStart, iterated, status, calls, compileArgs, delays, elapsed>>

-----------------------------------------------------------------------------
(* Bounds *)

MaxRows == 2        \* data lines of a pre-existing dados_empresas.csv
MaxLoads == 2       \* loader calls in the loader specification
MaxUrlParts == 2    \* pieces a stub argument is concatenated from
MaxRagCalls == 2    \* stub calls on one argument in the stub specification

-----------------------------------------------------------------------------
(* Strings *)

NoFile == << <<"<absent>">> >>   \* no such file
None   == <<"<None>">>

COMMA == ","
QUOTE == "\""

s_Empresa       == <<"E","m","p","r","e","s","a">>
s_Ticker        == <<"T","i","c","k","e","r">>
s_Relatorio_URL == <<"R","e","l","a","t","o","r","i","o","_","U","R","L">>
s_Netflix       == <<"N","e","t","f","l","i","x">>
s_Tesla         == <<"T","e","s","l","a">>
s_NFLX          == <<"N","F","L","X">>
s_TSLA          == <<"T","S","L","A">>
s_NA            == <<"N","/","A">>
s_SemURL        == <<"S","e","m"," ","U","R","L">>
s_NA_SemURL     == <<"N","/","A"," ","-"," ","S","e","m"," ","U","R","L">>
s_NoneText      == <<"N","o","n","e">>
s_Relatorio_    == <<"R","e","l","a","t","o","r","i","o","_">>
s_md            == <<".","m","d">>

\* needle in haystack (Python's `in` on str)
Contains(haystack, needle) ==
    \E i \in 0..(Len(haystack) - Len(needle)) :
        SubSeq(haystack, i + 1, i + Len(needle)) = needle

RECURSIVE Concat(_)
Concat(ss) == IF ss = <<>> THEN <<>> ELSE Head(ss) \o Concat(Tail(ss))

\* str(v) as an f-string formats it
Fmt(v) == IF v = None THEN s_NoneText ELSE v

SeqsUpTo(S, n) == UNION { [1..k -> S] : k \in 0..n }

-----------------------------------------------------------------------------
(* consult_document_rag, lines 34-62.  The four fixed texts are named, not *)
(* spelled out.                                                            *)

consult_document_rag_swapped(report_url) ==
    IF Contains(report_url, s_NFLX) THEN "NFLX_PARAGRAPH"
    ELSE IF Contains(report_url, s_TSLA) THEN "TSLA_PARAGRAPH"
    ELSE IF report_url = <<>> \/ Contains(report_url, s_NA)
                              \/ Contains(report_url, s_SemURL) THEN "NO_DATA"
    ELSE "GENERIC_PARAGRAPH"

consult_document_rag(report_url) ==
    IF report_url = <<>> \/ Contains(report_url, s_NA)
                         \/ Contains(report_url, s_SemURL) THEN "NO_DATA"
    ELSE IF Contains(report_url, s_NFLX) THEN "NFLX_PARAGRAPH"
    ELSE IF Contains(report_url, s_TSLA) THEN "TSLA_PARAGRAPH"
    ELSE "GENERIC_PARAGRAPH"

-----------------------------------------------------------------------------
(* The csv module as lines 70-73 and 82-87 use it (excel dialect).         *)

\* csv.writer: a field holding the delimiter or the quote character is
\* quoted, with its quote characters doubled; None is written as ''.
RECURSIVE csv_double_quotes(_)
csv_double_quotes(f) ==
    IF f = <<>> THEN <<>>
    ELSE (IF Head(f) = QUOTE THEN <<QUOTE, QUOTE>> ELSE <<Head(f)>>)
         \o csv_double_quotes(Tail(f))

csv_write_field(f) ==
    IF f = None THEN <<>>
    ELSE IF \E i \in DOMAIN f : f[i] \in {COMMA, QUOTE}
         THEN <<QUOTE>> \o csv_double_quotes(f) \o <<QUOTE>>
         ELSE f

RECURSIVE csv_join(_)
csv_join(fields) ==
    IF fields = <<>> THEN <<>>
    ELSE IF Len(fields) = 1 THEN csv_write_field(fields[1])
    ELSE csv_write_field(Head(fields)) \o <<COMMA>> \o csv_join(Tail(fields))

\* csv.reader on one line: the parser's states START_RECORD, START_FIELD,
\* IN_FIELD, IN_QUOTED_FIELD and QUOTE_IN_QUOTED_FIELD.
RECURSIVE csv_parse(_, _, _, _)
csv_parse(line, st, field, row) ==
    IF line = <<>> THEN
        IF st = "START_RECORD" THEN row ELSE Append(row, field)
    ELSE
        LET c == Head(line)
            rest == Tail(line)
        IN  CASE st \in {"START_RECORD", "START_FIELD"} ->
                    IF c = QUOTE THEN csv_parse(rest, "IN_QUOTED_FIELD", <<>>, row)
                    ELSE IF c = COMMA THEN csv_parse(rest, "START_FIELD", <<>>, Append(row, <<>>))
                    ELSE csv_parse(rest, "IN_FIELD", <<c>>, row)
              [] st = "IN_FIELD" ->
                    IF c = COMMA THEN csv_parse(rest, "START_FIELD", <<>>, Append(row, field))
                    ELSE csv_parse(rest, "IN_FIELD", Append(field, c), row)
              [] st = "IN_QUOTED_FIELD" ->
                    IF c = QUOTE THEN csv_parse(rest, "QUOTE_IN_QUOTED_FIELD", field, row)
                    ELSE csv_parse(rest, "IN_QUOTED_FIELD", Append(field, c), row)
              [] st = "QUOTE_IN_QUOTED_FIELD" ->
                    IF c = QUOTE THEN csv_parse(rest, "IN_QUOTED_FIELD", Append(field, c), row)
                    ELSE IF c = COMMA THEN csv_parse(rest, "START_FIELD", <<>>, Append(row, field))
                    ELSE csv_parse(rest, "IN_FIELD", Append(field, c), row)

csv_reader_row(line) == csv_parse(line, "START_RECORD", <<>>, <<>>)

Min(a, b) == IF a < b THEN a ELSE b

\* csv.DictReader.__next__: dict(zip(fieldnames, row)), the surplus values
\* under restkey (None), the missing ones set to restval (None).
DictReader_row(fieldnames, row) ==
    LET lf == Len(fieldnames)
        lr == Len(row)
        n  == Min(lf, lr)
        last(k) == CHOOSE i \in 1..n :
                      /\ fieldnames[i] = k
                      /\ \A j \in (i + 1)..n : fieldnames[j] # k
        zipped  == { fieldnames[i] : i \in 1..n }
        missing == { fieldnames[i] : i \in (lr + 1)..lf }
        keys    == zipped \cup missing \cup (IF lf < lr THEN {None} ELSE {})
    IN  [ k \in keys |->
            IF k \in missing THEN None
            ELSE IF k = None THEN SubSeq(row, lf + 1, lr)
            ELSE row[last(k)] ]

\* rows of the reader that are not [] (DictReader skips them)
RECURSIVE NonBlankRows(_)
NonBlankRows(lines) ==
    IF lines = <<>> THEN <<>>
    ELSE LET r == csv_reader_row(Head(lines))
         IN  (IF r = <<>> THEN <<>> ELSE <<r>>) \o NonBlankRows(Tail(lines))

\* list(csv.DictReader(file)): the first non-blank row is the header.  The
\* file is read once: rows is bound to the parsed rows.
DictReader(lines) ==
    CHOOSE dicts \in
        { IF rows = <<>> THEN <<>>
          ELSE [ i \in 1..(Len(rows) - 1) |-> DictReader_row(rows[1], rows[i + 1]) ] :
          rows \in { NonBlankRows(lines) } } : TRUE

\* csv.DictWriter.writerow: the values in fieldnames order, '' when absent
DictWriter_row(fieldnames, rowdict) ==
    csv_join([ i \in 1..Len(fieldnames) |->
                 IF fieldnames[i] \in DOMAIN rowdict THEN rowdict[fieldnames[i]]
                 ELSE <<>> ])

-----------------------------------------------------------------------------
(* ler_lista_empresas_csv, lines 66-88 *)

CompanyRecord(empresa, ticker, url) ==
    [ k \in {s_Empresa, s_Ticker, s_Relatorio_URL} |->
        IF k = s_Empresa THEN empresa
        ELSE IF k = s_Ticker THEN ticker
        ELSE url ]

exemplo_data ==
    << CompanyRecord(s_Netflix, s_NFLX, s_NA_SemURL),
       CompanyRecord(s_Tesla, s_TSLA, s_NA_SemURL) >>

exemplo_fieldnames == <<s_Empresa, s_Ticker, s_Relatorio_URL>>

\* (a variant: writer.writeheader() left out)
exemplo_file_no_header ==
    [ i \in 1..Len(exemplo_data) |->
        DictWriter_row(exemplo_fieldnames, exemplo_data[i]) ]

\* lines 82-87: writeheader, then one writerow per example row
exemplo_file ==
    <<csv_join(exemplo_fieldnames)>>
    \o [ i \in 1..Len(exemplo_data) |->
           DictWriter_row(exemplo_fieldnames, exemplo_data[i]) ]

\* what the call returns (lines 75 and 88)
ler_lista_empresas_csv(file) ==
    IF file = NoFile THEN exemplo_data ELSE DictReader(file)

\* what the call leaves on disk
ler_lista_empresas_csv_file(file) ==
    IF file = NoFile THEN exemplo_file ELSE file

-----------------------------------------------------------------------------
(* The driver loop, lines 160-244 *)

DELAY_SECONDS == 7

RECURSIVE str_replace(_, _, _)
\* s.replace(old, new) for a one-character old
str_replace(s, old, new) ==
    IF s = <<>> THEN <<>>
    ELSE (IF Head(s) = old THEN new ELSE <<Head(s)>>) \o str_replace(Tail(s), old, new)

\* line 163: f"{dados_empresa['Empresa']} ({dados_empresa['Ticker']})"
NomeCompleto(dados_empresa) ==
    Fmt(dados_empresa[s_Empresa]) \o <<" ", "(">> \o Fmt(dados_empresa[s_Ticker]) \o <<")">>

\* line 195: three replace calls, each on the result of the one before
file_name_clean(nome) ==
    CHOOSE r \in
        { str_replace(b, ")", <<>>) :
          b \in { str_replace(a, "(", <<>>) :
                  a \in { str_replace(nome, " ", <<"_">>) } } } : TRUE

\* line 228: f"Relatorio_{file_name_clean}.md"
ReportFileName(nome) == s_Relatorio_ \o file_name_clean(nome) \o s_md

\* The texts the external services return are opaque: each is named by the
\* company position it was produced for.
Fatos(i)          == <<"fatos", i>>            \* research_result['output']
ErroPesquisa(i)   == <<"Erro na pesquisa", i>> \* line 183
ReportRecord(i)   == <<"AnaliseAcionaria", i>> \* what relator_chain.invoke returns
Markdown(rec)     == <<"markdown", rec[2]>>    \* final_report_markdown, lines 197-226
EmptyFile         == <<"empty", 0>>            \* a file opened with 'w', nothing written
PartialFile(rec)  == <<"partial", rec[2]>>     \* a prefix of final_report_markdown
NoRecord          == <<"unset", 0>>

\* open(name, "w"): the file exists and is empty
FsOpenW(fs, name) ==
    [ n \in (DOMAIN fs) \cup {name} |-> IF n = name THEN EmptyFile ELSE fs[n] ]

\* f.write(text) and the close at the end of the with block
FsWrite(fs, name, text) ==
    [ n \in (DOMAIN fs) \cup {name} |-> IF n = name THEN text ELSE fs[n] ]

SetStatus(st) == status' = [status EXCEPT ![idx] = st]
Log(kind, outcome) == calls' = Append(calls, <<kind, idx, outcome>>)

\* one call ler_lista_empresas_csv(): its effect on the file, its result
CallLoader ==
    /\ csvFile' = ler_lista_empresas_csv_file(csvFile)
    /\ loadRets' = Append(loadRets, ler_lista_empresas_csv(csvFile))
    /\ loadFiles' = Append(loadFiles, csvFile)

\* line 160: the only loader call of the script
Load ==
    /\ pc = "load"
    /\ CallLoader
    /\ empresas_para_analisar' = ler_lista_empresas_csv(csvFile)
    /\ status' = [ i \in 1..Len(empresas_para_analisar') |-> "PENDING" ]
    /\ pc' = "for"
    /\ UNCHANGED <<idx, empresa_nome_completo, fatos_consolidados, relatorio_objeto, report_file,
                   outFiles, outAtStart, iterated, calls, compileArgs, delays, elapsed>>
    /\ UNCHANGED ragVars

\* (a variant: the row before the current one is read)
ForNext_off_by_one ==
    /\ pc = "for"
    /\ idx < Len(empresas_para_analisar)
    /\ {s_Empresa, s_Ticker, s_Relatorio_URL} \subseteq DOMAIN empresas_para_analisar[idx + 1]
    /\ idx' = idx + 1
    /\ LET dados_empresa == empresas_para_analisar[IF idx = 0 THEN 1 ELSE idx]
       IN  /\ empresa_nome_completo' = NomeCompleto(dados_empresa)
           /\ iterated' = Append(iterated, dados_empresa)
    /\ outAtStart' = outFiles
    /\ pc' = "research"
    /\ UNCHANGED <<empresas_para_analisar, fatos_consolidados, relatorio_objeto, report_file,
                   outFiles, status, calls, compileArgs, delays, elapsed>>
    /\ UNCHANGED <<loaderVars, ragVars>>

\* the keys lines 163-164 read
RowKeys == {s_Empresa, s_Ticker, s_Relatorio_URL}

\* lines 162-164: the next dados_empresa lacks a key (the header of the file
\* has no such column); the KeyError is raised outside the try blocks and
\* ends the script
ForKeyError ==
    /\ pc = "for"
    /\ idx < Len(empresas_para_analisar)
    /\ ~(RowKeys \subseteq DOMAIN empresas_para_analisar[idx + 1])
    /\ idx' = idx + 1
    /\ iterated' = Append(iterated, empresas_para_analisar[idx'])
    /\ outAtStart' = outFiles
    /\ pc' = "aborted"
    /\ UNCHANGED <<empresas_para_analisar, empresa_nome_completo, fatos_consolidados,
                   relatorio_objeto, report_file, outFiles, status, calls, compileArgs,
                   delays, elapsed>>
    /\ UNCHANGED <<loaderVars, ragVars>>

\* lines 162-176: the next dados_empresa, its label and the request text
ForNext ==
    /\ pc = "for"
    /\ idx < Len(empresas_para_analisar)
    /\ RowKeys \subseteq DOMAIN empresas_para_analisar[idx + 1]
    /\ idx' = idx + 1
    /\ empresa_nome_completo' = NomeCompleto(empresas_para_analisar[idx'])
    /\ iterated' = Append(iterated, empresas_para_analisar[idx'])
    /\ outAtStart' = outFiles
    /\ pc' = "research"
    /\ UNCHANGED <<empresas_para_analisar, fatos_consolidados, relatorio_objeto, report_file,
                   outFiles, status, calls, compileArgs, delays, elapsed>>
    /\ UNCHANGED <<loaderVars, ragVars>>

\* lines 242-244: the list is exhausted
ForEnd ==
    /\ pc = "for"
    /\ idx = Len(empresas_para_analisar)
    /\ pc' = "finished"
    /\ UNCHANGED <<empresas_para_analisar, idx, empresa_nome_completo,
                   fatos_consolidados, relatorio_objeto, report_file, outFiles, outAtStart,
                   iterated, status, calls, compileArgs, delays, elapsed>>
    /\ UNCHANGED <<loaderVars, ragVars>>

\* lines 180-181: agent_executor_researcher.invoke returns
ResearchOk ==
    /\ pc = "research"
    /\ fatos_consolidados' = Fatos(idx)
    /\ SetStatus("RESEARCHED")
    /\ Log("research", "ok")
    /\ pc' = "compile"
    /\ UNCHANGED <<empresas_para_analisar, idx, empresa_nome_completo, relatorio_objeto, report_file,
                   outFiles, outAtStart, iterated, compileArgs, delays, elapsed>>
    /\ UNCHANGED <<loaderVars, ragVars>>

\* (a variant: no `continue`, the placeholder goes on to the report step)
ResearchRaise_no_continue ==
    /\ pc = "research"
    /\ fatos_consolidados' = ErroPesquisa(idx)
    /\ SetStatus("RESEARCH_FAILED")
    /\ Log("research", "raise")
    /\ pc' = "compile"
    /\ UNCHANGED <<empresas_para_analisar, idx, empresa_nome_completo, relatorio_objeto, report_file,
                   outFiles, outAtStart, iterated, compileArgs, delays, elapsed>>
    /\ UNCHANGED <<loaderVars, ragVars>>

\* (a variant: the first failure of a company is tried again)
ResearchRaise_retry ==
    /\ pc = "research"
    /\ fatos_consolidados' = ErroPesquisa(idx)
    /\ Log("research", "raise")
    /\ IF \E k \in DOMAIN calls : calls[k][1] = "research" /\ calls[k][2] = idx
         THEN SetStatus("RESEARCH_FAILED") /\ pc' = "for"
         ELSE UNCHANGED status /\ pc' = "research"
    /\ UNCHANGED <<empresas_para_analisar, idx, empresa_nome_completo, relatorio_objeto, report_file,
                   outFiles, outAtStart, iterated, compileArgs, delays, elapsed>>
    /\ UNCHANGED <<loaderVars, ragVars>>

\* lines 182-185: it raises; the placeholder is stored and `continue` goes
\* back to the for statement
ResearchRaise ==
    /\ pc = "research"
    /\ fatos_consolidados' = ErroPesquisa(idx)
    /\ SetStatus("RESEARCH_FAILED")
    /\ Log("research", "raise")
    /\ pc' = "for"
    /\ UNCHANGED <<empresas_para_analisar, idx, empresa_nome_completo, relatorio_objeto, report_file,
                   outFiles, outAtStart, iterated, compileArgs, delays, elapsed>>
    /\ UNCHANGED <<loaderVars, ragVars>>

\* lines 234-235: the handler of the report try block prints and falls
\* through to the delay
ReportFailed(kind) ==
    /\ SetStatus("REPORT_FAILED")
    /\ Log(kind, "raise")
    /\ pc' = "delay"

\* lines 189-192: relator_chain.invoke returns a record
CompileOk ==
    /\ pc = "compile"
    /\ compileArgs' = Append(compileArgs, fatos_consolidados)
    /\ relatorio_objeto' = ReportRecord(idx)
    /\ Log("compile", "ok")
    /\ pc' = "render"
    /\ UNCHANGED <<empresas_para_analisar, idx, empresa_nome_completo, fatos_consolidados,
                   report_file, outFiles, outAtStart, iterated, status, delays, elapsed>>
    /\ UNCHANGED <<loaderVars, ragVars>>

\* (a variant: the report try block has no handler, the exception leaves
\* the loop)
CompileRaise_uncaught ==
    /\ pc = "compile"
    /\ compileArgs' = Append(compileArgs, fatos_consolidados)
    /\ Log("compile", "raise")
    /\ pc' = "aborted"
    /\ UNCHANGED <<empresas_para_analisar, idx, empresa_nome_completo, fatos_consolidados,
                   relatorio_objeto, report_file, outFiles, outAtStart, iterated, status, delays,
                   elapsed>>
    /\ UNCHANGED <<loaderVars, ragVars>>

\* (a variant: the failure is swallowed and the stale record is rendered)
CompileRaise_swallowed ==
    /\ pc = "compile"
    /\ compileArgs' = Append(compileArgs, fatos_consolidados)
    /\ Log("compile", "raise")
    /\ pc' = "render"
    /\ UNCHANGED <<empresas_para_analisar, idx, empresa_nome_completo, fatos_consolidados,
                   relatorio_objeto, report_file, outFiles, outAtStart, iterated, status, delays,
                   elapsed>>
    /\ UNCHANGED <<loaderVars, ragVars>>

\* lines 189-192, 234-235: it raises
CompileRaise ==
    /\ pc = "compile"
    /\ compileArgs' = Append(compileArgs, fatos_consolidados)
    /\ ReportFailed("compile")
    /\ UNCHANGED <<empresas_para_analisar, idx, empresa_nome_completo, fatos_consolidados,
                   relatorio_objeto, report_file, outFiles, outAtStart, iterated, delays, elapsed>>
    /\ UNCHANGED <<loaderVars, ragVars>>

\* lines 195-226: the file name and the Markdown text are built
RenderOk ==
    /\ pc = "render"
    /\ report_file' = ReportFileName(empresa_nome_completo)
    /\ Log("render", "ok")
    /\ pc' = "open"
    /\ UNCHANGED <<empresas_para_analisar, idx, empresa_nome_completo, fatos_consolidados,
                   relatorio_objeto, outFiles, outAtStart, iterated, status, compileArgs,
                   delays, elapsed>>
    /\ UNCHANGED <<loaderVars, ragVars>>

\* lines 195-226, 234-235: building the text raises (a field of the record
\* is not what the template expects)
RenderRaise ==
    /\ pc = "render"
    /\ ReportFailed("render")
    /\ UNCHANGED <<empresas_para_analisar, idx, empresa_nome_completo, fatos_consolidados,
                   relatorio_objeto, report_file, outFiles, outAtStart, iterated, compileArgs,
                   delays, elapsed>>
    /\ UNCHANGED <<loaderVars, ragVars>>

\* line 228: open(..., "w") creates the file or truncates it
OpenOk ==
    /\ pc = "open"
    /\ outFiles' = FsOpenW(outFiles, report_file)
    /\ Log("open", "ok")
    /\ pc' = "write"
    /\ UNCHANGED <<empresas_para_analisar, idx, empresa_nome_completo, fatos_consolidados,
                   relatorio_objeto, report_file, outAtStart, iterated, status, compileArgs,
                   delays, elapsed>>
    /\ UNCHANGED <<loaderVars, ragVars>>

\* lines 228, 234-235: open raises
OpenRaise ==
    /\ pc = "open"
    /\ ReportFailed("open")
    /\ UNCHANGED <<empresas_para_analisar, idx, empresa_nome_completo, fatos_consolidados,
                   relatorio_objeto, report_file, outFiles, outAtStart, iterated, compileArgs,
                   delays, elapsed>>
    /\ UNCHANGED <<loaderVars, ragVars>>

\* lines 229-232: f.write returns, the with block closes the file
WriteOk ==
    /\ pc = "write"
    /\ outFiles' = FsWrite(outFiles, report_file, Markdown(relatorio_objeto))
    /\ SetStatus("REPORTED")
    /\ Log("write", "ok")
    /\ pc' = "delay"
    /\ UNCHANGED <<empresas_para_analisar, idx, empresa_nome_completo, fatos_consolidados,
                   relatorio_objeto, report_file, outAtStart, iterated, compileArgs, delays, elapsed>>
    /\ UNCHANGED <<loaderVars, ragVars>>

\* lines 229, 234-235: f.write raises (the text cannot be encoded, the disk
\* is full); the with block closes the file, which is as open() left it or
\* holds the part of the text that reached the disk
WriteRaise ==
    /\ pc = "write"
    /\ \E content \in {EmptyFile, PartialFile(relatorio_objeto)} :
          outFiles' = FsWrite(outFiles, report_file, content)
    /\ ReportFailed("write")
    /\ UNCHANGED <<empresas_para_analisar, idx, empresa_nome_completo, fatos_consolidados,
                   relatorio_objeto, report_file, outAtStart, iterated, compileArgs,
                   delays, elapsed>>
    /\ UNCHANGED <<loaderVars, ragVars>>

\* lines 237-240: time.sleep(DELAY_SECONDS), then back to the for statement
Delay ==
    /\ pc = "delay"
    /\ delays' = delays + 1
    /\ elapsed' = elapsed + DELAY_SECONDS
    /\ status' = [status EXCEPT ![idx] = IF @ = "REPORTED" THEN "DONE" ELSE @]
    /\ Log("sleep", "ok")
    /\ pc' = "for"
    /\ UNCHANGED <<empresas_para_analisar, idx, empresa_nome_completo, fatos_consolidados,
                   relatorio_objeto, report_file, outFiles, outAtStart, iterated, compileArgs>>
    /\ UNCHANGED <<loaderVars, ragVars>>

-----------------------------------------------------------------------------
(* The script: dados_empresas.csv is absent or holds a header and up to    *)
(* MaxRows lines.                                                          *)

s_A_space_B == <<"A", " ", "B">>
s_A_under_B == <<"A", "_", "B">>
s_T         == <<"T">>
s_U         == <<"U">>

\* well-formed data lines, a blank line, and a line with one field only
InputLines ==
    { csv_join(<<e, t, s_NFLX>>) : e \in {s_A_space_B, s_A_under_B}, t \in {s_T, s_U} }
    \cup { <<>>, s_A_space_B }

\* the header of section 6, and a header without the Relatorio_URL column
InputHeaders == { csv_join(exemplo_fieldnames), csv_join(<<s_Empresa, s_Ticker>>) }

InputFiles ==
    { <<h>> \o rows : h \in InputHeaders, rows \in SeqsUpTo(InputLines, MaxRows) }
    \cup { NoFile }

InitLoop ==
    /\ empresas_para_analisar = <<>>
    /\ pc = "load"
    /\ idx = 0
    /\ empresa_nome_completo = <<>>
    /\ fatos_consolidados = NoRecord
    /\ relatorio_objeto = NoRecord
    /\ report_file = <<>>
    /\ outFiles = <<>>
    /\ outAtStart = <<>>
    /\ iterated = <<>>
    /\ status = <<>>
    /\ calls = <<>>
    /\ compileArgs = <<>>
    /\ delays = 0
    /\ elapsed = 0

InitRag ==
    /\ ragUrl = <<>>
    /\ ragOut = "unset"
    /\ ragPrev = <<>>

Init ==
    /\ csvFile \in InputFiles
    /\ loadRets = <<>>
    /\ loadFiles = <<>>
    /\ InitLoop
    /\ InitRag

Next ==
    \/ Load
    \/ ForNext
    \/ ForKeyError
    \/ ForEnd
    \/ ResearchOk
    \/ ResearchRaise
    \/ CompileOk
    \/ CompileRaise
    \/ RenderOk
    \/ RenderRaise
    \/ OpenOk
    \/ OpenRaise
    \/ WriteOk
    \/ WriteRaise
    \/ Delay

Spec == Init /\ [][Next]_vars

\* Every call of the script returns or raises, and the interpreter runs the
\* next statement.
FairSpec == Spec /\ WF_vars(Next)

-----------------------------------------------------------------------------
(* The loader on its own: any file of the kind above, also with a quoted   *)
(* field or a surplus field, and up to MaxLoads calls on the same path.    *)

LoaderLines ==
    InputLines
    \cup { <<QUOTE, "A", COMMA, "B", QUOTE, COMMA, "T", COMMA, "x">>,
           <<"C", COMMA, "T", COMMA, "x", COMMA, "y">> }

LoaderFiles ==
    { <<csv_join(exemplo_fieldnames)>> \o rows : rows \in SeqsUpTo(LoaderLines, MaxRows) }
    \cup { NoFile, <<>> }

LoaderInit ==
    /\ csvFile \in LoaderFiles
    /\ loadRets = <<>>
    /\ loadFiles = <<>>
    /\ InitLoop
    /\ InitRag

LoaderCall ==
    /\ Len(loadRets) < MaxLoads
    /\ CallLoader
    /\ UNCHANGED <<loopVars, ragVars>>

LoaderNext == LoaderCall

LoaderSpec == LoaderInit /\ [][LoaderNext]_vars

-----------------------------------------------------------------------------
(* The stub on its own: any argument made of up to MaxUrlParts pieces,     *)
(* called up to MaxRagCalls times.                                         *)

UrlPieces ==
    { s_NFLX, s_TSLA, s_NA, s_SemURL, <<"N", "/">>, <<"A">>, <<"x">> }

Urls == { Concat(parts) : parts \in SeqsUpTo(UrlPieces, MaxUrlParts) }

RagInit ==
    /\ csvFile = NoFile
    /\ loadRets = <<>>
    /\ loadFiles = <<>>
    /\ InitLoop
    /\ ragUrl \in Urls
    /\ ragOut = "unset"
    /\ ragPrev = <<>>

RagCall ==
    /\ Len(ragPrev) + 1 < MaxRagCalls \/ ragOut = "unset"
    /\ ragOut' = consult_document_rag(ragUrl)
    /\ ragPrev' = IF ragOut = "unset" THEN ragPrev ELSE Append(ragPrev, ragOut)
    /\ UNCHANGED <<ragUrl, loaderVars, loopVars>>

RagNext == RagCall

RagSpec == RagInit /\ [][RagNext]_vars

-----------------------------------------------------------------------------
(* Properties *)

N == Len(empresas_para_analisar)

Terminal == {"RESEARCH_FAILED", "REPORT_FAILED", "DONE"}

\* positions in the log of the calls of one kind made for company i
CallsOf(kind, i) == { k \in DOMAIN calls : calls[k][1] = kind /\ calls[k][2] = i }

ServiceKinds == {"research", "compile", "open", "write"}

NameOf(i) == ReportFileName(NomeCompleto(empresas_para_analisar[i]))

\* C1: when the run is over, time.sleep(DELAY_SECONDS) has been executed
\* exactly once after every company, whatever its outcome, so the number of
\* delays equals the number of companies K and the time slept is at least
\* K x DELAY_SECONDS.
C1_DelayAfterEveryCompany ==
    pc = "finished" =>
        /\ \A i \in 1..N : Cardinality(CallsOf("sleep", i)) = 1
        /\ delays = N
        /\ elapsed >= N * DELAY_SECONDS

\* C2: a company whose research call raised gets no compile call and no
\* open or write call, its iteration leaves the output directory as it
\* found it, the script is back at the for statement (or, after the last
\* company, past the loop), and the run goes on to research the next
\* company of the list.
C2_ResearchFailureSkipsCompany ==
    \A i \in 1..Len(status) :
        status[i] = "RESEARCH_FAILED" =>
            /\ \A kind \in {"compile", "render", "open", "write"} : CallsOf(kind, i) = {}
            /\ (idx = i => /\ outFiles = outAtStart
                           /\ pc = (IF i < N THEN "for" ELSE pc)
                           /\ pc \in {"for", "finished"})
            /\ (i < idx => CallsOf("research", i + 1) # {} \/ pc = "research")
            /\ (pc = "finished" /\ i < N => CallsOf("research", i + 1) # {})

C2_Witness ==
    /\ pc = "finished"
    /\ N = 2
    /\ status[1] = "RESEARCH_FAILED"
    /\ status[2] = "DONE"
    /\ DOMAIN outFiles = {NameOf(2)}

\* C3: when the compile call, open or f.write raised for the current
\* company, its iteration has created no file, and every file that was
\* there when the iteration began still has the content it had.
C3_ReportFailureLeavesNoFile ==
    (idx > 0 /\ status[idx] = "REPORT_FAILED") =>
        /\ DOMAIN outFiles = DOMAIN outAtStart
        /\ \A n \in DOMAIN outAtStart : outFiles[n] = outAtStart[n]

\* the list is a list of company records: every row has the three fields
CompanyList ==
    \A i \in 1..N : RowKeys \subseteq DOMAIN empresas_para_analisar[i]

AllowedTransitions ==
    { <<"PENDING", "RESEARCHED">>, <<"PENDING", "RESEARCH_FAILED">>,
      <<"RESEARCHED", "REPORTED">>, <<"RESEARCHED", "REPORT_FAILED">>,
      <<"REPORTED", "DONE">> }

\* the k-th compile call of the log
CompileCalls == SelectSeq(calls, LAMBDA c : c[1] = "compile")

\* C5: a company's state changes only along PENDING -> RESEARCHED ->
\* REPORTED -> DONE, PENDING -> RESEARCH_FAILED or RESEARCHED ->
\* REPORT_FAILED; every compile call is made for a company whose research
\* call returned, with the facts that call returned (never the error
\* placeholder); and open is called for a company only after its compile
\* call returned a record.
C5_StateMachine ==
    /\ [][ \A i \in DOMAIN status :
              \/ status'[i] = status[i]
              \/ <<status[i], status'[i]>> \in AllowedTransitions ]_vars
    /\ [](/\ Len(compileArgs) = Len(CompileCalls)
          /\ \A k \in DOMAIN CompileCalls :
                LET i == CompileCalls[k][2]
                IN  /\ compileArgs[k] = Fatos(i)
                    /\ \E r \in CallsOf("research", i) : calls[r][3] = "ok"
          /\ \A i \in 1..N : \A o \in CallsOf("open", i) :
                \E c \in CallsOf("compile", i) : c < o /\ calls[c][3] = "ok")

C5_Witness ==
    /\ pc = "finished"
    /\ N = 2
    /\ status[1] = "RESEARCH_FAILED"
    /\ status[2] = "REPORT_FAILED"
    /\ CallsOf("open", 2) # {}

\* C6: for each row the research call is made at most once, and exactly
\* once when the row's iteration is over; the compile call, open and
\* f.write are made at most once; and once a call has raised for a company,
\* no further service call is made for it.
C6_NoRetry ==
    \A i \in 1..N :
        /\ \A kind \in ServiceKinds : Cardinality(CallsOf(kind, i)) <= 1
        /\ (i < idx \/ pc = "finished") => Cardinality(CallsOf("research", i)) = 1
        /\ \A k \in DOMAIN calls :
              (calls[k][2] = i /\ calls[k][3] = "raise") =>
                  \A m \in DOMAIN calls :
                      (m > k /\ calls[m][2] = i) => calls[m][1] \notin ServiceKinds

C6_Witness ==
    /\ pc = "finished"
    /\ N = 2
    /\ status[1] = "REPORT_FAILED"
    /\ status[2] = "DONE"
    /\ CallsOf("compile", 1) # {}
    /\ CallsOf("open", 1) = {}

\* the data lines of a file that are not blank, and the first field of an
\* unquoted line
DataLines(file) == SelectSeq(Tail(file), LAMBDA l : l # <<>>)
FirstField(line) ==
    IF \E p \in DOMAIN line : line[p] = COMMA
    THEN SubSeq(line, 1, (CHOOSE p \in DOMAIN line :
                             /\ line[p] = COMMA
                             /\ \A q \in 1..(p - 1) : line[q] # COMMA) - 1)
    ELSE line

\* C7: the list holds one record per non-blank data line of the file, in
\* file order; the iterations take the records one by one in list order,
\* each exactly once; the calls of the log are grouped by company in list
\* order; and before anything is done for a company, every company before
\* it is in a terminal state and, unless its research failed, its delay
\* has been slept.
C7_SequentialInFileOrder ==
    pc # "load" =>
        /\ N = Len(DataLines(csvFile))
        /\ \A i \in 1..N :
              empresas_para_analisar[i][s_Empresa] = FirstField(DataLines(csvFile)[i])
        /\ Len(iterated) = idx
        /\ \A k \in DOMAIN iterated : iterated[k] = empresas_para_analisar[k]
        /\ (pc = "finished" => idx = N)
        /\ \A j, k \in DOMAIN calls : j < k => calls[j][2] <= calls[k][2]
        /\ \A k \in DOMAIN calls : calls[k][2] <= idx
        /\ \A i \in 1..N :
              i < idx =>
                  /\ status[i] \in Terminal
                  /\ (status[i] # "RESEARCH_FAILED" => CallsOf("sleep", i) # {})

C7_Witness ==
    /\ pc = "finished"
    /\ N = 2
    /\ Len(csvFile) = 3
    /\ iterated[1] # iterated[2]
    /\ status[1] = "DONE"
    /\ status[2] = "DONE"

\* C8: after a call of consult_document_rag, the result is the no-data
\* sentence when the argument is empty or contains 'N/A' or 'Sem URL' (also
\* when it contains a ticker); otherwise the NFLX paragraph when it
\* contains 'NFLX'; otherwise the TSLA paragraph when it contains 'TSLA';
\* otherwise the generic paragraph; and every earlier call on the same
\* argument gave the same result.
C8_StubPriority ==
    ragOut # "unset" =>
        LET noUrl == ragUrl = <<>> \/ Contains(ragUrl, s_NA) \/ Contains(ragUrl, s_SemURL)
            nflx  == Contains(ragUrl, s_NFLX)
            tsla  == Contains(ragUrl, s_TSLA)
        IN  /\ noUrl => ragOut = "NO_DATA"
            /\ (~noUrl /\ nflx) => ragOut = "NFLX_PARAGRAPH"
            /\ (~noUrl /\ ~nflx /\ tsla) => ragOut = "TSLA_PARAGRAPH"
            /\ (~noUrl /\ ~nflx /\ ~tsla) => ragOut = "GENERIC_PARAGRAPH"
            /\ \A k \in DOMAIN ragPrev : ragPrev[k] = ragOut

C8_Witness ==
    /\ ragOut = "NO_DATA"
    /\ ragUrl = <<"N", "/">> \o <<"A">> \o s_NFLX
    /\ Len(ragPrev) = 1

l_header  == <<"E","m","p","r","e","s","a",",","T","i","c","k","e","r",",",
               "R","e","l","a","t","o","r","i","o","_","U","R","L">>
l_netflix == <<"N","e","t","f","l","i","x",",","N","F","L","X",",",
               "N","/","A"," ","-"," ","S","e","m"," ","U","R","L">>
l_tesla   == <<"T","e","s","l","a",",","T","S","L","A",",",
               "N","/","A"," ","-"," ","S","e","m"," ","U","R","L">>

\* the file right after the k-th loader call
FileAfter(k) == IF k < Len(loadFiles) THEN loadFiles[k + 1] ELSE csvFile

\* C9: a loader call on a path with no file creates the file with the
\* header and the 2 default rows and returns those 2 records; a loader call
\* on an existing file leaves it as it is; and every later call on the same
\* path returns the records the first call returned, in the same order.
C9_LoaderIdempotent ==
    \A k \in DOMAIN loadRets :
        /\ loadFiles[k] = NoFile =>
              /\ FileAfter(k) = <<l_header, l_netflix, l_tesla>>
              /\ loadRets[k] = << CompanyRecord(s_Netflix, s_NFLX, s_NA_SemURL),
                                  CompanyRecord(s_Tesla, s_TSLA, s_NA_SemURL) >>
        /\ loadFiles[k] # NoFile => FileAfter(k) = loadFiles[k]
        /\ k > 1 => /\ loadRets[k] = loadRets[1]
                    /\ FileAfter(k) = FileAfter(1)

C9_Witness ==
    /\ Len(loadRets) = 2
    /\ loadFiles[1] = NoFile
    /\ loadFiles[2] # NoFile
    /\ Len(loadRets[2]) = 2

\* C10: when the run is over, the output files are exactly the files named
\* after the companies that were reported, and each holds the report of
\* the last company of the list that was reported under its name.
C10_FilesAreTheReportedCompanies ==
    pc = "finished" =>
        LET reported == { i \in 1..N : status[i] = "DONE" }
        IN  /\ DOMAIN outFiles = { NameOf(i) : i \in reported }
            /\ \A n \in DOMAIN outFiles :
                  \E i \in reported :
                      /\ NameOf(i) = n
                      /\ \A j \in reported : NameOf(j) = n => j <= i
                      /\ outFiles[n] = Markdown(ReportRecord(i))

====
